---------------------------- MODULE Spec2Model ----------------------------
(***************************************************************************)
(* The pressure-measurement record keeper of b0ss666/Code_FustA.           *)
(*                                                                         *)
(* The repository holds four rewrites of one small program:                *)
(*   1231234.py  parser + in-memory list, no file                          *)
(*   2llaba.py   parser + list mirrored to pressure_data.txt               *)
(*   3rabota.py  the same with InputError and MeasurementRepository        *)
(*   5rabota.py  the same again, without the sort menu entry               *)
(* The variable `variant` says which of them is running.  Text is modelled *)
(* as TLA+ strings and is parsed character by character, the way           *)
(* str.split, float, int and datetime.strptime do.                         *)
(***************************************************************************)
EXTENDS Integers, Sequences, FiniteSets, TLC

VARIABLES
    variant,   \* which of the four programs is running
    pc,        \* "off" (no process), "menu" (inside main's loop), "client" (a caller other than main holds the repository)
    file,      \* pressure_data.txt: [exists, lines]
    data,      \* the in-memory list of measurements
    skipped,   \* the lines the most recent load passed over
    input,     \* the text most recently handed to PressureParser.parse
    parsed,    \* what that parse call produced
    last,      \* outcome of the most recent operation
    shown,     \* the rows most recently rendered by print_table
    unsaved    \* records appended by an add whose save raised, not yet covered by a completed save

vars == <<variant, pc, file, data, skipped, input, parsed, last, shown, unsaved>>

(***************************************************************************)
(* Bounds of the model.                                                    *)
(***************************************************************************)
MaxRecords == 3      \* adds are offered while the list is shorter than this
MaxTopRecords == 6   \* longest list handed to show_top5 in SpecTop

V1 == "1231234.py"
V2 == "2llaba.py"
V3 == "3rabota.py"
V5 == "5rabota.py"
Variants == {V1, V2, V3, V5}
FileVariants == {V2, V3, V5}

(***************************************************************************)
(* Characters and strings.                                                 *)
(***************************************************************************)
Char(s, i) == IF i >= 1 /\ i <= Len(s) THEN SubSeq(s, i, i) ELSE ""

IsSpace(c) == c \in {" ", "\t", "\n"}

IsDigit(c) == c \in {"0", "1", "2", "3", "4", "5", "6", "7", "8", "9"}

DigitVal(c) ==
    CASE c = "0" -> 0 [] c = "1" -> 1 [] c = "2" -> 2 [] c = "3" -> 3
      [] c = "4" -> 4 [] c = "5" -> 5 [] c = "6" -> 6 [] c = "7" -> 7
      [] c = "8" -> 8 [] c = "9" -> 9

AllDigits(s) == Len(s) > 0 /\ \A i \in 1..Len(s) : IsDigit(Char(s, i))

RECURSIVE DigitsToNat(_)
DigitsToNat(s) ==
    IF Len(s) = 0 THEN 0
    ELSE 10 * DigitsToNat(SubSeq(s, 1, Len(s) - 1)) + DigitVal(Char(s, Len(s)))

RECURSIVE Pow10(_)
Pow10(n) == IF n = 0 THEN 1 ELSE 10 * Pow10(n - 1)

\* str.strip(): leading and trailing whitespace removed
RECURSIVE strip(_)
strip(s) ==
    IF Len(s) = 0 THEN s
    ELSE IF IsSpace(Char(s, 1)) THEN strip(SubSeq(s, 2, Len(s)))
    ELSE IF IsSpace(Char(s, Len(s))) THEN strip(SubSeq(s, 1, Len(s) - 1))
    ELSE s

\* str.split(): the maximal runs of non-whitespace characters, in order
RECURSIVE SplitFrom(_, _, _)
SplitFrom(s, i, cur) ==
    IF i > Len(s) THEN (IF cur = "" THEN <<>> ELSE <<cur>>)
    ELSE IF IsSpace(Char(s, i))
         THEN (IF cur = "" THEN <<>> ELSE <<cur>>) \o SplitFrom(s, i + 1, "")
         ELSE SplitFrom(s, i + 1, cur \o Char(s, i))

split(s) == SplitFrom(s, 1, "")

(***************************************************************************)
(* Results of calls that may raise.                                        *)
(***************************************************************************)
Ok(v) == [ok |-> TRUE, val |-> v, exc |-> "none", kind |-> "none"]
Raise(e, k) == [ok |-> FALSE, val |-> 0, exc |-> e, kind |-> k]

\* `except handler:` catches exc; InputError derives from Exception,
\* ValueError, IndexError and OSError are siblings under Exception
Catches(handler, exc) == handler = "Exception" \/ handler = exc

(***************************************************************************)
(* int(text): an optional sign and decimal digits.                         *)
(***************************************************************************)
IntBody(neg, body) ==
    IF ~AllDigits(body) THEN Raise("ValueError", "raw")
    ELSE IF neg THEN Ok(0 - DigitsToNat(body))
    ELSE Ok(DigitsToNat(body))

int(s) ==
    IF Char(s, 1) \in {"+", "-"}
    THEN IntBody(Char(s, 1) = "-", SubSeq(s, 2, Len(s)))
    ELSE IntBody(FALSE, s)

(***************************************************************************)
(* float values: nan, +-inf, or a finite decimal (-1)^neg * mant/10^scale  *)
(* kept normalised (no trailing zero in the fraction).  Decimal literals   *)
(* of up to 15 significant digits survive float -> str -> float unchanged, *)
(* so the decimal form is exact for the bounded inputs.                    *)
(***************************************************************************)
NaN == [k |-> "nan", neg |-> FALSE, mant |-> 0, scale |-> 0]
Inf(n) == [k |-> "inf", neg |-> n, mant |-> 0, scale |-> 0]

RECURSIVE Fin(_, _, _)
Fin(n, m, sc) ==
    IF sc > 0 /\ m % 10 = 0 THEN Fin(n, m \div 10, sc - 1)
    ELSE [k |-> "fin", neg |-> n, mant |-> m, scale |-> sc]

\* digits [. digits*] | . digits, split at its only dot
Decimal(neg, ip, fp) ==
    IF Len(ip) + Len(fp) = 0 THEN Raise("ValueError", "raw")
    ELSE IF \E i \in 1..Len(ip) : ~IsDigit(Char(ip, i)) THEN Raise("ValueError", "raw")
    ELSE IF \E i \in 1..Len(fp) : ~IsDigit(Char(fp, i)) THEN Raise("ValueError", "raw")
    ELSE Ok(Fin(neg, DigitsToNat(ip \o fp), Len(fp)))

FloatDots(neg, body, dots) ==
    IF dots = {} THEN
        (IF AllDigits(body) THEN Ok(Fin(neg, DigitsToNat(body), 0))
         ELSE Raise("ValueError", "raw"))
    ELSE IF Cardinality(dots) > 1 THEN Raise("ValueError", "raw")
    ELSE Decimal(neg, SubSeq(body, 1, (CHOOSE i \in dots : TRUE) - 1),
                 SubSeq(body, (CHOOSE i \in dots : TRUE) + 1, Len(body)))

FloatBody(neg, body) ==
    IF body = "nan" THEN Ok(NaN)
    ELSE IF body \in {"inf", "infinity"} THEN Ok(Inf(neg))
    ELSE FloatDots(neg, body, {i \in 1..Len(body) : Char(body, i) = "."})

\* float(text): sign? (digits [. digits*] | . digits) | sign? nan | sign? inf
\* (exponents and underscores, which float() also reads, occur in no input
\* of this module and are not modelled)
float(s) ==
    IF Char(s, 1) \in {"+", "-"}
    THEN FloatBody(Char(s, 1) = "-", SubSeq(s, 2, Len(s)))
    ELSE FloatBody(FALSE, s)

\* value < 0 on floats
FloatLt0(f) ==
    \/ f.k = "fin" /\ f.neg /\ f.mant > 0
    \/ f.k = "inf" /\ f.neg

\* a == b on floats: nan equals nothing, -0.0 equals 0.0
FloatEq(a, b) ==
    /\ a.k # "nan" /\ b.k # "nan"
    /\ \/ a = b
       \/ a.k = "fin" /\ b.k = "fin" /\ a.mant = 0 /\ b.mant = 0

RECURSIVE ZeroPad(_, _)
ZeroPad(s, w) == IF Len(s) >= w THEN s ELSE ZeroPad("0" \o s, w)

\* str(float) as to_file_string's f-string renders it
FloatStr(f) ==
    IF f.k = "nan" THEN "nan"
    ELSE IF f.k = "inf" THEN (IF f.neg THEN "-inf" ELSE "inf")
    ELSE (IF f.neg THEN "-" ELSE "")
         \o ToString(f.mant \div Pow10(f.scale)) \o "."
         \o (IF f.scale = 0 THEN "0"
             ELSE ZeroPad(ToString(f.mant % Pow10(f.scale)), f.scale))


(***************************************************************************)
(* datetime.strptime(text, "%Y.%m.%d").  The format compiles to the regex  *)
(*   (\d\d\d\d)\.(1[0-2]|0[1-9]|[1-9])\.(3[01]|[12]\d|0[1-9]|[1-9]| [1-9]) *)
(* matched at the start of the text; text left over after the match, a     *)
(* year of 0 and a day the month does not have all raise ValueError.       *)
(***************************************************************************)
IsLeap(y) == y % 4 = 0 /\ (y % 100 # 0 \/ y % 400 = 0)

DaysIn(y, m) ==
    IF m = 2 THEN (IF IsLeap(y) THEN 29 ELSE 28)
    ELSE IF m \in {4, 6, 9, 11} THEN 30 ELSE 31

NonZeroDigit(c) == IsDigit(c) /\ c # "0"

\* the month group and the dot after it: the first alternative of
\* 1[0-2]|0[1-9]|[1-9] that a dot follows; 0 when none does
MonthLen(s) ==
    IF /\ \/ Char(s, 6) = "1" /\ Char(s, 7) \in {"0", "1", "2"}
          \/ Char(s, 6) = "0" /\ NonZeroDigit(Char(s, 7))
       /\ Char(s, 8) = "."
    THEN 2
    ELSE IF NonZeroDigit(Char(s, 6)) /\ Char(s, 7) = "." THEN 1 ELSE 0

\* the day group at position p: the first alternative of
\* 3[01]|[12]\d|0[1-9]|[1-9] that matches; 0 when none does
DayLen(s, p) ==
    IF \/ Char(s, p) = "3" /\ Char(s, p + 1) \in {"0", "1"}
       \/ Char(s, p) \in {"1", "2"} /\ IsDigit(Char(s, p + 1))
       \/ Char(s, p) = "0" /\ NonZeroDigit(Char(s, p + 1))
    THEN 2
    ELSE IF NonZeroDigit(Char(s, p)) THEN 1 ELSE 0

\* datetime(year, month, day)
MakeDate(y, m, d) ==
    IF y = 0 \/ d > DaysIn(y, m) THEN Raise("ValueError", "raw")
    ELSE Ok([y |-> y, m |-> m, d |-> d])

MatchDay(s, mlen, p, dlen) ==
    IF mlen = 0 \/ dlen = 0 THEN Raise("ValueError", "raw")
    ELSE IF p + dlen - 1 < Len(s) THEN Raise("ValueError", "raw")
    ELSE MakeDate(DigitsToNat(SubSeq(s, 1, 4)),
                  DigitsToNat(SubSeq(s, 6, 5 + mlen)),
                  DigitsToNat(SubSeq(s, p, p + dlen - 1)))

MatchMonth(s, mlen) == MatchDay(s, mlen, 7 + mlen, DayLen(s, 7 + mlen))

strptime(s) ==
    IF ~(Len(s) >= 4 /\ AllDigits(SubSeq(s, 1, 4)) /\ Char(s, 5) = ".")
    THEN Raise("ValueError", "raw")
    ELSE MatchMonth(s, MonthLen(s))

(***************************************************************************)
(* PressureMeasurement                                                     *)
(***************************************************************************)
PressureMeasurement(date, height, value) ==
    [date |-> date, height |-> height, value |-> value]

to_file_string(m) ==
    m.date \o " " \o FloatStr(m.height) \o " " \o ToString(m.value)

\* PressureMeasurement(tokens[0], float(tokens[1]), int(tokens[2])): the
\* arguments are evaluated left to right, tokens[i] past the end of the
\* list raises IndexError
FromValue(date, height, value) ==
    IF ~value.ok THEN value ELSE Ok(PressureMeasurement(date, height, value.val))

FromHeight(parts, height) ==
    IF ~height.ok THEN height
    ELSE IF Len(parts) < 3 THEN Raise("IndexError", "raw")
    ELSE FromValue(parts[1], height.val, int(parts[3]))

FromParts(v, parts) ==
    IF v = V5 /\ Len(parts) # 3 THEN Raise("InputError", "CorruptLine")
    ELSE IF Len(parts) < 2 THEN Raise("IndexError", "raw")
    ELSE FromHeight(parts, float(parts[2]))

from_file_string(v, line) == FromParts(v, split(strip(line)))

(***************************************************************************)
(* PressureParser and its helpers.  V3 and V5 raise InputError for every   *)
(* failure; V1 and V2 raise ValueError and let float() and int() raise     *)
(* their own.                                                              *)
(***************************************************************************)
ErrClass(v) == IF v \in {V3, V5} THEN "InputError" ELSE "ValueError"

parse_date(v, text) ==
    IF v = V1
    THEN (IF Len(text) # 10 \/ Char(text, 5) # "." \/ Char(text, 8) # "."
          THEN Raise("ValueError", "MalformedDate") ELSE Ok(text))
    ELSE (IF strptime(text).ok THEN Ok(text)
          ELSE Raise(ErrClass(v), "MalformedDate"))

CheckHeight(v, value) ==
    IF ~value.ok
        THEN (IF v \in {V3, V5} THEN Raise("InputError", "NotANumber") ELSE value)
    ELSE IF FloatLt0(value.val) THEN Raise(ErrClass(v), "NegativeHeight")
    ELSE value

parse_height(v, text) == CheckHeight(v, float(text))

CheckPressure(v, value) ==
    IF ~value.ok
        THEN (IF v \in {V3, V5} THEN Raise("InputError", "NotAnInteger") ELSE value)
    ELSE IF value.val <= 0 THEN Raise(ErrClass(v), "NonPositivePressure")
    ELSE value

parse_pressure(v, text) == CheckPressure(v, int(text))

\* 1231234.py converts both numbers before it range-checks either
ParseV1(date, height, value) ==
    IF ~height.ok THEN height
    ELSE IF ~value.ok THEN value
    ELSE IF FloatLt0(height.val) THEN Raise("ValueError", "NegativeHeight")
    ELSE IF value.val <= 0 THEN Raise("ValueError", "NonPositivePressure")
    ELSE Ok(PressureMeasurement(date, height.val, value.val))

ParseValue(date, height, value) ==
    IF ~value.ok THEN value ELSE Ok(PressureMeasurement(date, height, value.val))

ParseHeight(v, tokens, date, height) ==
    IF ~height.ok THEN height
    ELSE ParseValue(date, height.val, parse_pressure(v, tokens[3]))

ParseDate(v, tokens, date) ==
    IF ~date.ok THEN date
    ELSE IF v = V1 THEN ParseV1(date.val, float(tokens[2]), int(tokens[3]))
    ELSE ParseHeight(v, tokens, date.val, parse_height(v, tokens[2]))

ParseTokens(v, tokens) ==
    IF Len(tokens) # 3 THEN Raise(ErrClass(v), "WrongFieldCount")
    ELSE ParseDate(v, tokens, parse_date(v, tokens[1]))

parse(v, text) == ParseTokens(v, split(text))

(***************************************************************************)
NoFile == [exists |-> FALSE, lines |-> <<>>]
FileOf(lines) == [exists |-> TRUE, lines |-> lines]

AddTexts ==
    { "2025.01.10 150 760",
      "2025.1.9 20.5 760",
      "2024.12.31 0 1013",
      "2025.01.10 nan 700",
      "2025.01.32 100 700",
      "hello world" }

InitFiles ==
    { NoFile,
      FileOf(<<"2025.03.02 0.0 1013", "corrupt line", "2025.01.10 150.0 760">>),
      FileOf(<<"2025.01.10 ten 700">>),
      FileOf(<<"2025.13.45 -5 0">>),
      FileOf(<<"", "2025.01.10 1 2 extra">>) }

(***************************************************************************)
(* The parsers applied to the inputs above, evaluated once.  Every text,   *)
(* line and date outside these tables is parsed directly.                  *)
(***************************************************************************)
InitLines == UNION {{f.lines[i] : i \in 1..Len(f.lines)} : f \in InitFiles}

ParseTable == [v \in Variants |-> [t \in AddTexts |-> parse(v, t)]]

Values(results) == {r.val : r \in {x \in results : x.ok}}

KnownRecords ==
    Values({ParseTable[x[1]][x[2]] : x \in Variants \X AddTexts})
    \cup Values({from_file_string(x[1], x[2]) : x \in FileVariants \X InitLines})

KnownLines == InitLines \cup {to_file_string(m) : m \in KnownRecords}

LineTable == [v \in FileVariants |-> [l \in KnownLines |-> from_file_string(v, l)]]

KnownDates == {m.date : m \in KnownRecords}

DateTable == [d \in KnownDates |-> strptime(d)]

Lookup(table, key, direct) == IF key \in DOMAIN table THEN table[key] ELSE direct

ParseInput(v, text) == Lookup(ParseTable[v], text, parse(v, text))

ReadLine(v, line) == Lookup(LineTable[v], line, from_file_string(v, line))

date_as_datetime(m) == Lookup(DateTable, m.date, strptime(m.date))

(***************************************************************************)
(* list.sort(key=...) and sorted(..., key=...): a stable sort, ascending   *)
(* by the integer key paired with each item.                               *)
(***************************************************************************)
RECURSIVE Insert(_, _)
Insert(s, p) ==
    IF s = <<>> THEN <<p>>
    ELSE IF Head(s)[1] <= p[1] THEN <<Head(s)>> \o Insert(Tail(s), p)
    ELSE <<p>> \o s

RECURSIVE SortPairs(_)
SortPairs(s) ==
    IF s = <<>> THEN <<>>
    ELSE Insert(SortPairs(SubSeq(s, 1, Len(s) - 1)), s[Len(s)])

list_sort(items, keys) ==
    LET pairs == [i \in 1..Len(items) |-> <<keys[i], items[i]>>]
        sorted == SortPairs(pairs)
    IN  [i \in 1..Len(items) |-> sorted[i][2]]

\* datetime values compare by (year, month, day)
DateKey(dt) == dt.y * 10000 + dt.m * 100 + dt.d

(***************************************************************************)
(* The data file and the repository.                                       *)
(***************************************************************************)
Serialize(items) == [i \in 1..Len(items) |-> to_file_string(items[i])]

\* the `except` clause around from_file_string inside the load loop
LineHandler(v) ==
    IF v = V5 THEN "InputError" ELSE IF v = V3 THEN "Exception" ELSE "none"

RECURSIVE LoadFrom(_, _, _, _, _)
LoadLine(v, lines, i, result, skip, r) ==
    IF r.ok THEN LoadFrom(v, lines, i + 1, Append(result, r.val), skip)
    ELSE IF Catches(LineHandler(v), r.exc)
        THEN LoadFrom(v, lines, i + 1, result, Append(skip, lines[i]))
    ELSE [ok |-> FALSE, val |-> <<>>, skip |-> skip, exc |-> r.exc]

LoadFrom(v, lines, i, result, skip) ==
    IF i > Len(lines) THEN [ok |-> TRUE, val |-> result, skip |-> skip, exc |-> "none"]
    ELSE LoadLine(v, lines, i, result, skip, ReadLine(v, lines[i]))

\* MeasurementRepository._load / load_from_file; 1231234.py starts from []
load(v, f) ==
    IF v = V1 \/ ~f.exists
    THEN [ok |-> TRUE, val |-> <<>>, skip |-> <<>>, exc |-> "none"]
    ELSE LoadFrom(v, f.lines, 1, <<>>, <<>>)

\* a file opened in append mode instead, which the code never does: C10
\* has to tell it from the rewrite
AppendedTo(f, items) == FileOf(f.lines \o Serialize(items))

\* what open(..., "w") plus the writes leave behind when they complete
Written(f, items) == FileOf(Serialize(items))

\* what they may leave behind when one of them raises OSError: the file as
\* it was (open itself failed) or truncated and holding only the lines
\* written before the failure
WriteFailures(f, items) ==
    LET ser == Serialize(items)
    IN  {f} \cup {FileOf(SubSeq(ser, 1, k)) : k \in 0..(Len(items) - 1)}

\* save / save_to_file: the set of outcomes [raised, file]
save(v, f, items) ==
    IF v = V1 THEN {[raised |-> FALSE, file |-> f, wrote |-> "no"]}
    ELSE {[raised |-> FALSE, file |-> Written(f, items), wrote |-> "ok"]}
         \cup {[raised |-> TRUE, file |-> g, wrote |-> "failed"] : g \in WriteFailures(f, items)}

\* an add that takes the record back out when save raises, which the code
\* does not do: C9 has to tell it from the append that stays
add_with_rollback(items, m, raised) == IF raised THEN items ELSE Append(items, m)

\* add / add_measurement: the list after `append` then `save`; nothing
\* takes the record back out when save raises
add_result(items, m, raised) == Append(items, m)

\* an Add flow that catches every exception, which the code does not do:
\* C8 has to tell it from the handler for validation errors
CatchAll(v) == "Exception"

\* the `except` clause of the Add flow
AddHandler(v) == IF v \in {V3, V5} THEN "InputError" ELSE "ValueError"

\* an ascending sort read backwards, which puts records of equal value in
\* reverse collection order: C7 has to tell it from reverse=True
sorted_ascending_reversed(items) ==
    LET asc == list_sort(items, [i \in 1..Len(items) |-> items[i].value])
    IN  [i \in 1..Len(items) |-> asc[Len(items) + 1 - i]]

\* sorted(data, key=lambda x: x.value, reverse=True)[:n]
sorted_by_value_desc(items) ==
    list_sort(items, [i \in 1..Len(items) |-> 0 - items[i].value])

TopN == 5

Slice(s, n) == SubSeq(s, 1, IF Len(s) < n THEN Len(s) ELSE n)

top(items, n) == Slice(sorted_by_value_desc(items), n)

\* data.sort(key=lambda x: x.date_as_datetime()): raises when a key does
\* and then leaves the list as it was
sort_keys(items) == [i \in 1..Len(items) |-> date_as_datetime(items[i])]

\* a date sort that reverses the records of one date: C6 has to tell it
\* from the stable sort
sorted_by_date_unstable(items) ==
    LET rev == [i \in 1..Len(items) |-> items[Len(items) + 1 - i]]
    IN  list_sort(rev, [i \in 1..Len(items) |-> DateKey(date_as_datetime(rev[i]).val)])

sorted_by_date(items) ==
    LET keys == sort_keys(items)
    IN  list_sort(items, [i \in 1..Len(items) |-> DateKey(keys[i].val)])

NoParse == [ok |-> FALSE, val |-> 0, exc |-> "none", kind |-> "none"]

Outcome(op, res, exc, kind, wrote, out) ==
    [op |-> op, res |-> res, exc |-> exc, kind |-> kind, wrote |-> wrote, out |-> out,
     healed |-> IF wrote = "ok" THEN Len(unsaved) ELSE 0]

\* an exception nobody catches ends main's process; a client keeps running
AfterRaise(p) == IF p = "menu" THEN "off" ELSE p

Init ==
    /\ variant \in Variants
    /\ pc = "off"
    /\ file \in (IF variant = V1 THEN {NoFile} ELSE InitFiles)
    /\ data = <<>>
    /\ skipped = <<>>
    /\ input = ""
    /\ parsed = NoParse
    /\ last = [op |-> "none", res |-> "ok", exc |-> "none", kind |-> "none",
               wrote |-> "no", out |-> "none", healed |-> 0]
    /\ shown = <<>>
    /\ unsaved = <<>>

(***************************************************************************)
(* main() up to its loop, or a client constructing the repository:         *)
(* the list is loaded from the file.                                       *)
(***************************************************************************)
main(c) ==
    /\ pc = "off"
    /\ c \in {"menu", "client"}
    /\ c = "client" => variant \in {V3, V5}
    /\ LET r == load(variant, file)
       IN  /\ data' = r.val
           /\ skipped' = r.skip
           /\ pc' = IF r.ok THEN c ELSE "off"
           /\ last' = Outcome("open", IF r.ok THEN "ok" ELSE "raised", r.exc,
                              IF r.ok THEN "none" ELSE "raw", "no", "none")
    /\ input' = ""
    /\ parsed' = NoParse
    /\ shown' = <<>>
    /\ unsaved' = <<>>
    /\ UNCHANGED <<variant, file>>

(***************************************************************************)
(* Menu entry 1: read a line, parse it, append, save, report.              *)
(***************************************************************************)
add_measurement_ui(text) ==
    /\ pc = "menu"
    /\ Len(data) < MaxRecords
    /\ input' = text
    /\ shown' = <<>>
    /\ LET r == ParseInput(variant, text)
           h == AddHandler(variant)
       IN  /\ parsed' = r
           /\ IF ~r.ok
              THEN /\ UNCHANGED <<data, file, unsaved>>
                   /\ pc' = IF Catches(h, r.exc) THEN pc ELSE "off"
                   /\ last' = IF Catches(h, r.exc)
                              THEN Outcome("add", "rejected", r.exc, r.kind, "no", "error")
                              ELSE Outcome("add", "raised", r.exc, r.kind, "no", "none")
              ELSE \E w \in save(variant, file, Append(data, r.val)) :
                   /\ data' = add_result(data, r.val, w.raised)
                   /\ file' = w.file
                   /\ unsaved' = IF w.raised THEN Append(unsaved, r.val) ELSE <<>>
                   /\ pc' = IF w.raised /\ ~Catches(h, "OSError") THEN "off" ELSE pc
                   /\ last' = IF ~w.raised
                              THEN Outcome("add", "ok", "none", "none", w.wrote, "added")
                              ELSE IF Catches(h, "OSError")
                              THEN Outcome("add", "rejected", "OSError", "raw", w.wrote, "error")
                              ELSE Outcome("add", "raised", "OSError", "raw", w.wrote, "none")
    /\ UNCHANGED <<variant, skipped>>

(***************************************************************************)
(* MeasurementRepository.add called by a client with a parsed measurement. *)
(***************************************************************************)
add(text) ==
    /\ pc = "client"
    /\ Len(data) < MaxRecords
    /\ input' = text
    /\ shown' = <<>>
    /\ LET r == ParseInput(variant, text)
           m == r.val
       IN  /\ r.ok
           /\ parsed' = r
           /\ \E w \in save(variant, file, Append(data, m)) :
                /\ data' = add_result(data, m, w.raised)
                /\ file' = w.file
                /\ unsaved' = IF w.raised THEN Append(unsaved, m) ELSE <<>>
                /\ last' = IF w.raised
                           THEN Outcome("add", "raised", "OSError", "raw", w.wrote, "none")
                           ELSE Outcome("add", "ok", "none", "none", w.wrote, "none")
    /\ UNCHANGED <<variant, pc, skipped>>

(***************************************************************************)
(* Menu entry 3 of 1231234.py, 2llaba.py and 3rabota.py.                   *)
(***************************************************************************)
sort_by_date ==
    /\ pc \in {"menu", "client"}
    /\ variant \in {V1, V2, V3}
    /\ input' = ""
    /\ parsed' = NoParse
    /\ shown' = <<>>
    /\ IF LET keys == sort_keys(data) IN \E i \in 1..Len(data) : ~keys[i].ok
       THEN /\ UNCHANGED <<data, file, unsaved>>
            /\ pc' = AfterRaise(pc)
            /\ last' = Outcome("sort", "raised", "ValueError", "raw", "no", "none")
       ELSE \E w \in save(variant, file, sorted_by_date(data)) :
            /\ data' = sorted_by_date(data)
            /\ file' = w.file
            /\ unsaved' = IF w.wrote = "ok" THEN <<>> ELSE unsaved
            /\ pc' = IF w.raised THEN AfterRaise(pc) ELSE pc
            /\ last' = IF w.raised
                       THEN Outcome("sort", "raised", "OSError", "raw", w.wrote, "none")
                       ELSE Outcome("sort", "ok", "none", "none", w.wrote, "sorted")
    /\ UNCHANGED <<variant, skipped>>

(***************************************************************************)
(* Menu entries "show all" and "top 5": pure reads.                        *)
(***************************************************************************)
print_all ==
    /\ pc \in {"menu", "client"}
    /\ shown' = data
    /\ last' = Outcome("list", "ok", "none", "none", "no", "table")
    /\ input' = ""
    /\ parsed' = NoParse
    /\ UNCHANGED <<variant, pc, file, data, skipped, unsaved>>

show_top5 ==
    /\ pc \in {"menu", "client"}
    /\ shown' = top(data, TopN)
    /\ last' = Outcome("top5", "ok", "none", "none", "no", "table")
    /\ input' = ""
    /\ parsed' = NoParse
    /\ UNCHANGED <<variant, pc, file, data, skipped, unsaved>>

(***************************************************************************)
(* Menu entry 0: the loop ends; 2llaba.py saves once more first.           *)
(***************************************************************************)
exit ==
    /\ pc \in {"menu", "client"}
    /\ pc' = "off"
    /\ input' = ""
    /\ parsed' = NoParse
    /\ shown' = <<>>
    /\ IF variant = V2
       THEN \E w \in save(variant, file, data) :
            /\ file' = w.file
            /\ unsaved' = IF w.raised THEN unsaved ELSE <<>>
            /\ last' = IF w.raised
                       THEN Outcome("exit", "raised", "OSError", "raw", w.wrote, "none")
                       ELSE Outcome("exit", "ok", "none", "none", w.wrote, "none")
       ELSE /\ UNCHANGED <<file, unsaved>>
            /\ last' = Outcome("exit", "ok", "none", "none", "no", "none")
    /\ data' = <<>>
    /\ UNCHANGED <<variant, skipped>>

Next ==
    \/ \E c \in {"menu", "client"} : main(c)
    \/ \E t \in AddTexts : add_measurement_ui(t)
    \/ \E t \in AddTexts : add(t)
    \/ sort_by_date
    \/ print_all
    \/ show_top5
    \/ exit

Spec == Init /\ [][Next]_vars

(***************************************************************************)
(* PressureParser.parse on its own, over a grid of date, height and        *)
(* pressure tokens and some lines with the wrong number of fields.         *)
(***************************************************************************)
DateToks ==
    { "2025.01.10", "2024.02.29", "2025.1.5", "2025-01-10", "2025.01.32",
      "2025.02.29", "2025.13.45", "2025.01.1x" }
HeightToks == {"150", "20.5", "0", "-0", "-5", "ten", "nan", "inf"}
ValueToks == {"760", "+7", "0", "-10", "7.0", "abc"}

ParseTexts ==
    {d \o " " \o h \o " " \o p : <<d, h, p>> \in DateToks \X HeightToks \X ValueToks}
    \cup {"", "   ", "2025.01.10 150", "hello world", "2025.01.10 150 760 9",
          "  2025.01.10   150  760 "}

InitParse ==
    /\ variant \in Variants
    /\ pc = "parse"
    /\ file = NoFile
    /\ data = <<>>
    /\ skipped = <<>>
    /\ input \in ParseTexts
    /\ parsed = NoParse
    /\ last = [op |-> "none", res |-> "ok", exc |-> "none", kind |-> "none",
               wrote |-> "no", out |-> "none", healed |-> 0]
    /\ shown = <<>>
    /\ unsaved = <<>>

parse_call ==
    /\ pc = "parse"
    /\ last.op = "none"
    /\ LET r == parse(variant, input)
       IN  /\ parsed' = r
           /\ last' = Outcome("parse", IF r.ok THEN "ok" ELSE "raised",
                              r.exc, r.kind, "no", "none")
    /\ UNCHANGED <<variant, pc, file, data, skipped, input, shown, unsaved>>

NextParse == parse_call

SpecParse == InitParse /\ [][NextParse]_vars

(***************************************************************************)
(* show_top5 on its own, over every list of up to MaxTopRecords records    *)
(* drawn from three measurements, two of which share their pressure.       *)
(***************************************************************************)
TopPool ==
    {parse(V5, t).val : t \in {"2025.01.10 150 760", "2025.1.9 20.5 760", "2024.12.31 0 1013"}}

InitTop ==
    /\ variant \in Variants
    /\ pc = "menu"
    /\ data \in UNION {[1..k -> TopPool] : k \in 0..MaxTopRecords}
    /\ file = IF variant = V1 THEN NoFile ELSE FileOf(Serialize(data))
    /\ skipped = <<>>
    /\ input = ""
    /\ parsed = NoParse
    /\ last = [op |-> "none", res |-> "ok", exc |-> "none", kind |-> "none",
               wrote |-> "no", out |-> "none", healed |-> 0]
    /\ shown = <<>>
    /\ unsaved = <<>>

NextTop == show_top5

SpecTop == InitTop /\ [][NextTop]_vars

(***************************************************************************)
(* The field constraints of a Measurement as the specification states      *)
(* them, written without the program's own parsers.                        *)
(***************************************************************************)
IsCalendarDate(s) ==
    /\ Len(s) = 10
    /\ Char(s, 5) = "." /\ Char(s, 8) = "."
    /\ AllDigits(SubSeq(s, 1, 4)) /\ AllDigits(SubSeq(s, 6, 7)) /\ AllDigits(SubSeq(s, 9, 10))
    /\ DigitsToNat(SubSeq(s, 1, 4)) >= 1
    /\ DigitsToNat(SubSeq(s, 6, 7)) \in 1..12
    /\ DigitsToNat(SubSeq(s, 9, 10)) >= 1
    /\ DigitsToNat(SubSeq(s, 9, 10))
         <= DaysIn(DigitsToNat(SubSeq(s, 1, 4)), DigitsToNat(SubSeq(s, 6, 7)))

\* value >= 0 on floats: false of nan
FloatGe0(f) ==
    \/ f.k = "fin" /\ (~f.neg \/ f.mant = 0)
    \/ f.k = "inf" /\ ~f.neg

ValidMeasurement(m) ==
    /\ IsCalendarDate(m.date)
    /\ FloatGe0(m.height)
    /\ m.value > 0

\* equality of two measurements field by field, as == compares each field
FieldsEqual(a, b) ==
    /\ a.date = b.date
    /\ FloatEq(a.height, b.height)
    /\ a.value = b.value

SameRecords(s, t) ==
    /\ Len(s) = Len(t)
    /\ \A i \in 1..Len(s) : FieldsEqual(s[i], t[i])

(***************************************************************************)
(* C1.  Every measurement in the in-memory collection has a YYYY.MM.DD     *)
(* date of a real calendar day, a height >= 0 and a value > 0, whether it  *)
(* came from parse or from a line of the file.                             *)
(* Fails: from_file_string validates nothing, so open on a file holding    *)
(* the line "2025.13.45 -5 0" stores a record breaking all three.          *)
(***************************************************************************)
C1_AllRecordsValid == \A i \in 1..Len(data) : ValidMeasurement(data[i])

C1_InvalidRecordLoaded ==
    /\ last.op = "open" /\ last.res = "ok"
    /\ Len(data) = 1
    /\ data[1].date = "2025.13.45"
    /\ FloatLt0(data[1].height)
    /\ data[1].value = 0

(***************************************************************************)
(* C2.  After an add or a sort_by_date that returned successfully the file *)
(* holds one line per in-memory record, in order, and loading it again     *)
(* yields a collection equal to the in-memory one field by field.          *)
(* Fails: parse accepts the height "nan" (nan < 0 is false), and the       *)
(* reloaded nan is not equal to the stored one.                            *)
(***************************************************************************)
C2_FileMirrorsMemory ==
    (variant \in FileVariants /\ last.op \in {"add", "sort"} /\ last.res = "ok") =>
        /\ file.exists
        /\ file.lines = Serialize(data)
        /\ load(variant, file).ok
        /\ SameRecords(load(variant, file).val, data)

C2_NanStored ==
    /\ variant \in FileVariants
    /\ last.op = "add" /\ last.res = "ok"
    /\ file.lines = Serialize(data)
    /\ data[Len(data)].height = NaN
    /\ load(variant, file).ok
    /\ ~FieldsEqual(load(variant, file).val[Len(data)], data[Len(data)])

(***************************************************************************)
(* C3.  open never fails because of what a line holds: the collection is   *)
(* exactly the deserializable lines, in file order, every other line is    *)
(* skipped, and a missing file gives an empty collection.                  *)
(* Fails: in 5rabota.py the loop catches InputError only, so the ValueError *)
(* of float("ten") ends open; 2llaba.py catches nothing per line.          *)
(***************************************************************************)
Deserializable(v, lines) ==
    LET Good(l) == from_file_string(v, l).ok
        kept == SelectSeq(lines, Good)
    IN  [i \in 1..Len(kept) |-> from_file_string(v, kept[i]).val]

C3_OpenSkipsBadLines ==
    (variant \in FileVariants /\ last.op = "open") =>
        /\ last.res = "ok"
        /\ data = (IF file.exists THEN Deserializable(variant, file.lines) ELSE <<>>)

C3_OpenRaised ==
    /\ variant = V5
    /\ last.op = "open" /\ last.res = "raised" /\ last.exc = "ValueError"
    /\ file = FileOf(<<"2025.01.10 ten 700">>)

(***************************************************************************)
(* C4.  A 3-token input fails with MalformedDate unless its first token is *)
(* 10 characters long with dots at positions 5 and 8 and names a real      *)
(* calendar day; a successful parse keeps the first token verbatim.        *)
(* Fails: strptime accepts one-digit months and days, so "2025.1.5" is     *)
(* stored; 1231234.py checks only the length and the dots.                 *)
(***************************************************************************)
C4_DateRule ==
    (last.op = "parse" /\ Len(split(input)) = 3) =>
        /\ ~IsCalendarDate(split(input)[1]) =>
               (~parsed.ok /\ parsed.kind = "MalformedDate")
        /\ parsed.ok => parsed.val.date = split(input)[1]

C4_ShortDateAccepted ==
    /\ variant = V5
    /\ last.op = "parse" /\ parsed.ok
    /\ parsed.val.date = "2025.1.5"

(***************************************************************************)
(* C5.  parse of 3rabota.py and 5rabota.py is fail-fast and left to right: *)
(* the outcome is a measurement or an InputError of exactly the kind of    *)
(* the first failing check among token count, date, height parseable,      *)
(* height >= 0, pressure parseable, pressure > 0.                          *)
(* Fails: "2025.01.10 nan 760" passes every check although nan >= 0 is     *)
(* false, and the short dates of C4 pass the date check.                   *)
(***************************************************************************)
FirstFailure(tokens) ==
    IF Len(tokens) # 3 THEN "WrongFieldCount"
    ELSE IF ~IsCalendarDate(tokens[1]) THEN "MalformedDate"
    ELSE IF ~float(tokens[2]).ok THEN "NotANumber"
    ELSE IF ~FloatGe0(float(tokens[2]).val) THEN "NegativeHeight"
    ELSE IF ~int(tokens[3]).ok THEN "NotAnInteger"
    ELSE IF int(tokens[3]).val <= 0 THEN "NonPositivePressure"
    ELSE "none"

C5_FailFast ==
    (variant \in {V3, V5} /\ last.op = "parse") =>
        /\ parsed.ok <=> FirstFailure(split(input)) = "none"
        /\ ~parsed.ok => (parsed.exc = "InputError"
                          /\ parsed.kind = FirstFailure(split(input)))

C5_NanAccepted ==
    /\ variant = V5
    /\ last.op = "parse" /\ parsed.ok
    /\ IsCalendarDate(parsed.val.date)
    /\ parsed.val.height = NaN

(***************************************************************************)
(* C6.  A sort_by_date that returns leaves a permutation of the collection *)
(* it found, ascending by calendar date, records of one date in their      *)
(* previous relative order; the file is rewritten from it, and sorting     *)
(* again changes neither the collection nor the file.                      *)
(***************************************************************************)
CalendarKey(m) == DateKey(date_as_datetime(m).val)

OfDate(items, k) ==
    LET Hit(m) == CalendarKey(m) = k
    IN  SelectSeq(items, Hit)

Keys(items) == {CalendarKey(items[i]) : i \in 1..Len(items)}

C6_SortContract ==
    [][(last'.op = "sort" /\ last'.res = "ok") =>
        /\ Len(data') = Len(data)
        /\ \A k \in Keys(data) \cup Keys(data') : OfDate(data', k) = OfDate(data, k)
        /\ \A i, j \in 1..Len(data') :
               i < j => CalendarKey(data'[i]) <= CalendarKey(data'[j])
        /\ variant \in FileVariants => file' = FileOf(Serialize(data'))
        /\ sorted_by_date(data') = data'
        /\ Written(file', sorted_by_date(data')) = Written(file', data')
        /\ (last.op = "sort" /\ last.res = "ok") => (data' = data /\ file' = file)]_vars

\* a sorted list that the sort had to reorder (the file's first record is of
\* a later date) and that holds two different records of one date
C6_Sorted ==
    /\ last.op = "sort" /\ last.res = "ok"
    /\ Len(skipped) > 0
    /\ Len(data) = 3
    /\ data[3].date = "2025.03.02"
    /\ data[1].date = data[2].date
    /\ data[1].height # NaN /\ data[2].height = NaN
    /\ file.lines = Serialize(data)

(***************************************************************************)
(* C7.  The top-5 listing of k records holds min(5, k) records: the ones   *)
(* of greatest value in descending order of value, records of equal value  *)
(* in collection order; the call changes neither the collection nor the    *)
(* file, and calling again lists the same.                                 *)
(***************************************************************************)
Rank(items, i) ==
    1 + Cardinality({j \in 1..Len(items) :
            \/ items[j].value > items[i].value
            \/ items[j].value = items[i].value /\ j < i})

C7_TopFive ==
    [][last'.op = "top5" =>
        /\ Len(shown') = (IF Len(data) < 5 THEN Len(data) ELSE 5)
        /\ \A i \in 1..Len(data) :
               Rank(data, i) <= 5 => shown'[Rank(data, i)] = data[i]
        /\ \A i, j \in 1..Len(shown') : i < j => shown'[i].value >= shown'[j].value
        /\ data' = data
        /\ file' = file
        /\ top(data', TopN) = shown']_vars

\* five of six records listed, out of collection order, with two different
\* records of one value among them
C7_Listed ==
    /\ last.op = "top5"
    /\ Len(data) = 6
    /\ Len(shown) = 5
    /\ shown # SubSeq(data, 1, 5)
    /\ \E i, j \in 1..5 : i < j /\ shown[i].value = shown[j].value /\ shown[i] # shown[j]
    /\ \E i, j \in 1..6 : data[i].value < data[j].value /\ i < j

(***************************************************************************)
(* C8.  A failed write during add or sort_by_date reaches the caller as an *)
(* error: the Add flow's handler for validation errors does not catch it   *)
(* and neither "added" nor "sorted" is reported.                           *)
(***************************************************************************)
C8_WriteFailurePropagates ==
    (last.op \in {"add", "sort"} /\ last.wrote = "failed") =>
        /\ last.res = "raised"
        /\ last.exc = "OSError"
        /\ last.out = "none"

C8_FailedAdd ==
    /\ variant \in {V2, V5}
    /\ last.op = "add" /\ last.wrote = "failed"
    /\ parsed.ok
    /\ pc = "off"

(***************************************************************************)
(* C9.  add appends before it writes and takes nothing back: after a       *)
(* failed write the new record is the last of the collection and the file  *)
(* is not the collection's image; the next add or sort_by_date that        *)
(* returns leaves the file equal to the collection, the records of the     *)
(* failed adds included.  `unsaved` lists those records.                   *)
(***************************************************************************)
C9_DivergesUntilNextWrite ==
    [][/\ (last'.op = "add" /\ last'.wrote = "failed") =>
            /\ data' = Append(data, parsed'.val)
            /\ unsaved' # <<>>
            /\ file'.lines # Serialize(data')
       /\ (variant \in FileVariants /\ last'.op \in {"add", "sort"} /\ last'.res = "ok") =>
            /\ file' = FileOf(Serialize(data'))
            /\ \A i \in 1..Len(unsaved) : \E j \in 1..Len(data') : data'[j] = unsaved[i]
            /\ \A i \in 1..Len(unsaved) :
                   \E j \in 1..Len(file'.lines) : file'.lines[j] = to_file_string(unsaved[i])
      ]_vars

\* a write that succeeded after an add whose write had failed
C9_Healed ==
    /\ last.op \in {"add", "sort"} /\ last.res = "ok"
    /\ last.healed > 0
    /\ file.lines = Serialize(data)
    /\ Len(data) >= 2

(***************************************************************************)
(* C10.  open leaves the file as it is; the first add or sort_by_date that *)
(* returns after it leaves a file of the serialized records only, so no    *)
(* line that open skipped is left in it.                                   *)
(***************************************************************************)
C10_SkippedLinesErased ==
    [][/\ last'.op = "open" => file' = file
       /\ (variant \in FileVariants /\ last'.op \in {"add", "sort"} /\ last'.res = "ok") =>
            /\ file'.lines = Serialize(data')
            /\ \A i \in 1..Len(skipped) :
                   \A j \in 1..Len(file'.lines) : file'.lines[j] # skipped[i]
      ]_vars

\* the file after the first successful add that followed an open which
\* skipped a line
C10_Erased ==
    /\ last.op = "add" /\ last.res = "ok"
    /\ Len(skipped) > 0
    /\ Len(data) = 3
    /\ Len(file.lines) = 3
    /\ \A i \in 1..Len(skipped) : \A j \in 1..Len(file.lines) : file.lines[j] # skipped[i]

=============================================================================
